---- MODULE Spec2Model ----
(***************************************************************************)
(* Model of worker.js, the MB Builder/Doctor backend: one fetch handler    *)
(* that computes the CORS decision, answers preflights, and routes a       *)
(* request to one of nine handlers over an object store (env.SITE).        *)
(*                                                                         *)
(* JavaScript strings that the code inspects character by character        *)
(* (paths, file names, the Content-Type request header, JSON string        *)
(* values) are sequences of one-character strings.  Strings the code only  *)
(* compares or passes on (methods, pathnames, origins, header names and    *)
(* values, error messages) are TLA+ strings.                               *)
(***************************************************************************)
EXTENDS Integers, Sequences, FiniteSets, TLC

VARIABLES
  cfg,      \* env.ALLOW_ORIGINS, fixed for the lifetime of the deployment
  uni,      \* what the clients of this run send: keys, file names, origins
  store,    \* env.SITE: key -> [data, contentType]
  acked,    \* history: key -> data and route of the most recent put
  pc,       \* "idle", or "done" when fetch has returned or thrown
  req,      \* the request being answered
  resp,     \* what fetch produced: a Response or an escaped exception
  ops,      \* the collaborator calls fetch made for this request, in order
  ran,      \* the handlers entered for this request
  pre       \* the store when the request arrived

vars == <<cfg, uni, store, acked, pc, req, resp, ops, ran, pre>>

(***************************************************************************)
(* Bounds of the model.                                                    *)
(***************************************************************************)
MaxFiles == 2      \* longest files[] array of an apply-diff body
FirstNow == 9      \* the earliest value Date.now() returns
ClockSpan == 1     \* how many later values it can return

Clock == FirstNow..(FirstNow + ClockSpan)

(***************************************************************************)
(* Characters and strings.                                                 *)
(***************************************************************************)
UpperChars == <<"A","B","C","D","E","F","G","H","I","J","K","L","M",
                "N","O","P","Q","R","S","T","U","V","W","X","Y","Z">>
LowerChars == <<"a","b","c","d","e","f","g","h","i","j","k","l","m",
                "n","o","p","q","r","s","t","u","v","w","x","y","z">>
DigitChars == <<"0","1","2","3","4","5","6","7","8","9">>

Range(s) == {s[i] : i \in DOMAIN s}

\* String.prototype.endsWith
EndsWith(s, suf) ==
  /\ Len(suf) <= Len(s)
  /\ SubSeq(s, Len(s) - Len(suf) + 1, Len(s)) = suf

\* String.prototype.startsWith
StartsWith(s, p) ==
  /\ Len(p) <= Len(s)
  /\ SubSeq(s, 1, Len(p)) = p

\* what the /i flag of a regular expression compares
LowerChar(c) ==
  IF \E i \in 1..26 : UpperChars[i] = c
    THEN LowerChars[CHOOSE i \in 1..26 : UpperChars[i] = c]
    ELSE c

ToLower(s) == [i \in DOMAIN s |-> LowerChar(s[i])]

\* the decimal digits of a non-negative number, as a template literal prints it
RECURSIVE NumberToString(_)
NumberToString(n) ==
  IF n < 10 THEN <<DigitChars[n + 1]>>
  ELSE NumberToString(n \div 10) \o <<DigitChars[(n % 10) + 1]>>

\* s.split("/").pop()
LastSegment(s) ==
  LET slashes == {i \in DOMAIN s : s[i] = "/"}
  IN  IF slashes = {} THEN s
      ELSE SubSeq(s, (CHOOSE i \in slashes : \A j \in slashes : j <= i) + 1, Len(s))

(***************************************************************************)
(* JavaScript values as they come out of JSON.parse.                       *)
(***************************************************************************)
Undefined == [t |-> "undefined"]
Null == [t |-> "null"]
Str(s) == [t |-> "string", v |-> s]
Num(n) == [t |-> "number", n |-> n]
Obj(f) == [t |-> "object", f |-> f]
Arr(a) == [t |-> "array", a |-> a]

\* !x is false
Truthy(x) ==
  CASE x.t = "undefined" -> FALSE
    [] x.t = "null" -> FALSE
    [] x.t = "string" -> x.v # <<>>
    [] x.t = "number" -> x.n # 0
    [] OTHER -> TRUE

\* x ?? d
Coalesce(x, d) == IF x.t \in {"undefined", "null"} THEN d ELSE x

\* x.name, for an x that is neither null nor undefined
Field(x, name) ==
  IF x.t = "object" /\ name \in DOMAIN x.f THEN x.f[name] ELSE Undefined

(***************************************************************************)
(* The helpers at the bottom of worker.js.                                 *)
(***************************************************************************)
DotHtml == <<".", "h", "t", "m", "l">>
DotCss == <<".", "c", "s", "s">>
DotJs == <<".", "j", "s">>
ImageExts == { <<"p","n","g">>, <<"j","p","g">>, <<"j","p","e","g">>,
               <<"g","i","f">>, <<"w","e","b","p">>, <<"s","v","g">> }

contentTypeNoCase(path) ==
  IF EndsWith(ToLower(path), DotHtml) THEN "text/html; charset=utf-8"
  ELSE IF EndsWith(ToLower(path), DotCss) THEN "text/css; charset=utf-8"
  ELSE IF EndsWith(ToLower(path), DotJs) THEN "text/javascript; charset=utf-8"
  ELSE IF \E e \in ImageExts : EndsWith(ToLower(path), <<".">> \o e) THEN "image/*"
  ELSE "text/plain; charset=utf-8"

contentType(path) ==
  IF EndsWith(path, DotHtml) THEN "text/html; charset=utf-8"
  ELSE IF EndsWith(path, DotCss) THEN "text/css; charset=utf-8"
  ELSE IF EndsWith(path, DotJs) THEN "text/javascript; charset=utf-8"
  ELSE IF \E e \in ImageExts : EndsWith(ToLower(path), <<".">> \o e) THEN "image/*"
  ELSE "text/plain; charset=utf-8"

SafeChars == Range(UpperChars) \cup Range(LowerChars) \cup Range(DigitChars)
               \cup {".", "_", "-"}

sanitizeKeepSlash(name) ==
  [i \in DOMAIN name |-> IF name[i] \in SafeChars \cup {"/"} THEN name[i] ELSE "_"]

\* name.replace(/[^a-zA-Z0-9._-]/g, "_"); the default "file" is for an
\* undefined argument, which a File's name never is
sanitize(name) ==
  [i \in DOMAIN name |-> IF name[i] \in SafeChars THEN name[i] ELSE "_"]

EscapeChar(c) ==
  CASE c = "&" -> <<"&","a","m","p",";">>
    [] c = "<" -> <<"&","l","t",";">>
    [] c = ">" -> <<"&","g","t",";">>
    [] c = "\"" -> <<"&","q","u","o","t",";">>
    [] c = "'" -> <<"&","#","3","9",";">>
    [] OTHER -> <<c>>

RECURSIVE escapeHtml(_)
escapeHtml(s) ==
  IF s = <<>> THEN <<>> ELSE EscapeChar(Head(s)) \o escapeHtml(Tail(s))

corsHeadersWildcard(allow, origin) ==
  LET h == [n \in {"Access-Control-Allow-Methods", "Access-Control-Allow-Headers",
                   "Access-Control-Max-Age"} |->
              CASE n = "Access-Control-Allow-Methods" -> "GET,POST,OPTIONS"
                [] n = "Access-Control-Allow-Headers" -> "content-type, authorization"
                [] OTHER -> "86400"]
  IN  ("Access-Control-Allow-Origin" :> (IF allow THEN origin ELSE "*")) @@ h

corsHeaders(allow, origin) ==
  LET h == [n \in {"Access-Control-Allow-Methods", "Access-Control-Allow-Headers",
                   "Access-Control-Max-Age"} |->
              CASE n = "Access-Control-Allow-Methods" -> "GET,POST,OPTIONS"
                [] n = "Access-Control-Allow-Headers" -> "content-type, authorization"
                [] OTHER -> "86400"]
  IN  IF allow THEN ("Access-Control-Allow-Origin" :> origin) @@ h ELSE h

\* new Response(body, {status, headers})
Response(body, status, headers) ==
  [kind |-> "response", status |-> status, headers |-> headers, body |-> body]

json(obj, allow, origin, status) ==
  Response([t |-> "json", v |-> obj], status,
           ("Content-Type" :> "application/json") @@ corsHeaders(allow, origin))

corsSuggestions(h) ==
  LET missing(n) == n \notin DOMAIN h \/ h[n] = ""
      out == (IF missing("access-control-allow-origin") THEN <<"add-allow-origin">> ELSE <<>>)
          \o (IF missing("access-control-allow-methods") THEN <<"add-allow-methods">> ELSE <<>>)
          \o (IF missing("access-control-allow-headers") THEN <<"add-allow-headers">> ELSE <<>>)
  IN  IF out # <<>> THEN out ELSE <<"looks-okay">>

(***************************************************************************)
(* The request, the store and the collaborator calls.                      *)
(***************************************************************************)
\* a header of the request: absent (null) or its text
Header(text) == [t |-> "header", text |-> text]

\* req.headers.get(name) || ""
HeaderOr(h, d) == IF h.t = "null" THEN d ELSE h.text

\* url.searchParams.get(name)
SearchGet(q, name) == IF name \in DOMAIN q THEN Str(q[name]) ELSE Null

PutIfAbsent(st, key, data, ctype) ==
  IF key \in DOMAIN st THEN st
  ELSE [k \in DOMAIN st \cup {key} |->
          IF k = key THEN [data |-> data, contentType |-> ctype] ELSE st[k]]

\* env.SITE.put(key, data, {httpMetadata: {contentType}})
Put(st, key, data, ctype) ==
  [k \in DOMAIN st \cup {key} |->
     IF k = key THEN [data |-> data, contentType |-> ctype] ELSE st[k]]

\* a thrown exception, on its way to the nearest catch
Thrown(detail) == [kind |-> "throw", detail |-> detail]

\* what a handler leaves behind: its return value or exception, the store,
\* and the collaborator calls it made
Result(out, st, calls) == [out |-> out, store |-> st, ops |-> calls]

\* safeJson(req): req.text(), then JSON.parse unless the text is empty.
\* The call is the first collaborator call of every handler that makes it.
safeJson(rq, fault) ==
  LET call == [op |-> "req.text", ok |-> fault # 1]
  IN  IF fault = 1
        THEN [threw |-> TRUE, detail |-> "TypeError: body", ops |-> <<call>>, v |-> Undefined]
      ELSE IF rq.body.kind = "empty"
        THEN [threw |-> FALSE, detail |-> "", ops |-> <<call>>, v |-> Obj(<<>>)]
      ELSE IF rq.body.kind = "json"
        THEN [threw |-> FALSE, detail |-> "", ops |-> <<call>>, v |-> rq.body.v]
      ELSE [threw |-> TRUE, detail |-> "SyntaxError", ops |-> <<call>>, v |-> Undefined]

\* const {a, b} = x throws for null and undefined
Destructurable(x) == x.t \notin {"null", "undefined"}

(***************************************************************************)
(* The handlers, one per route, in the order of the router.  fault is the  *)
(* position, among the collaborator calls of the request, of the call that *)
(* throws (0: none does).                                                  *)
(***************************************************************************)
hPing(rq, st, allow, origin, t) ==
  Result(json([ok |-> TRUE, time |-> t], allow, origin, 200), st, <<>>)

hList(rq, st, allow, origin, fault) ==
  LET prefix == LET p == SearchGet(rq.query, "prefix") IN IF Truthy(p) THEN p.v ELSE <<>>
      call == [op |-> "list", prefix |-> prefix, ok |-> fault # 1]
      items == {[key |-> k, size |-> Len(st[k].data)] : k \in {x \in DOMAIN st : StartsWith(x, prefix)}}
  IN  IF fault = 1 THEN Result(Thrown("list failed"), st, <<call>>)
      ELSE Result(json([ok |-> TRUE, items |-> items], allow, origin, 200), st, <<call>>)

hRead(rq, st, allow, origin, fault) ==
  LET path == SearchGet(rq.query, "path")
      get == [op |-> "get", key |-> path.v, ok |-> fault # 1]
      text == [op |-> "obj.text", key |-> path.v, ok |-> fault # 2]
  IN  IF ~Truthy(path)
        THEN Result(json([ok |-> FALSE, error |-> "path required"], allow, origin, 400), st, <<>>)
      ELSE IF fault = 1 THEN Result(Thrown("get failed"), st, <<get>>)
      ELSE IF path.v \notin DOMAIN st
        THEN Result(json([ok |-> FALSE, error |-> "not found"], allow, origin, 404), st, <<get>>)
      ELSE IF fault = 2 THEN Result(Thrown("text failed"), st, <<get, text>>)
      ELSE Result(Response([t |-> "text", text |-> st[path.v].data], 200,
                           ("Content-Type" :> contentType(path.v)) @@ corsHeaders(allow, origin)),
                  st, <<get, text>>)

hWritePutFirst(rq, st, allow, origin, fault) ==
  LET sj == safeJson(rq, fault)
      path == Field(sj.v, "path")
      content == Field(sj.v, "content")
      data == Coalesce(content, Str(<<>>)).v
      key == IF path.t = "string" THEN path.v ELSE <<>>
      put == [op |-> "put", key |-> key, data |-> data,
              contentType |-> contentType(key), ok |-> fault # 2]
  IN  IF sj.threw THEN Result(Thrown(sj.detail), st, sj.ops)
      ELSE IF ~Destructurable(sj.v) THEN Result(Thrown("TypeError: destructure"), st, sj.ops)
      ELSE IF fault = 2 THEN Result(Thrown("put failed"), st, sj.ops \o <<put>>)
      ELSE IF ~Truthy(path)
        THEN Result(json([ok |-> FALSE, error |-> "path required"], allow, origin, 400),
                    Put(st, key, data, contentType(key)), sj.ops \o <<put>>)
      ELSE Result(json([ok |-> TRUE, path |-> path], allow, origin, 200),
                  Put(st, key, data, contentType(key)), sj.ops \o <<put>>)

hWrite(rq, st, allow, origin, fault) ==
  LET sj == safeJson(rq, fault)
      path == Field(sj.v, "path")
      content == Field(sj.v, "content")
      data == Coalesce(content, Str(<<>>)).v
      put == [op |-> "put", key |-> path.v, data |-> data,
              contentType |-> contentType(path.v), ok |-> fault # 2]
  IN  IF sj.threw THEN Result(Thrown(sj.detail), st, sj.ops)
      ELSE IF ~Destructurable(sj.v) THEN Result(Thrown("TypeError: destructure"), st, sj.ops)
      ELSE IF ~Truthy(path)
        THEN Result(json([ok |-> FALSE, error |-> "path required"], allow, origin, 400), st, sj.ops)
      \* contentType(path) calls path.endsWith before put is called
      ELSE IF path.t # "string" THEN Result(Thrown("TypeError: endsWith"), st, sj.ops)
      ELSE IF fault = 2 THEN Result(Thrown("put failed"), st, sj.ops \o <<put>>)
      ELSE Result(json([ok |-> TRUE, path |-> path], allow, origin, 200),
                  Put(st, path.v, data, contentType(path.v)), sj.ops \o <<put>>)

\* the for loop of /api/apply-diff over the rest of payload.files
RECURSIVE applyFiles(_, _, _, _)
applyFiles(files, st, calls, fault) ==
  IF files = <<>> THEN [threw |-> FALSE, detail |-> "", store |-> st, ops |-> calls]
  ELSE
    LET f == Head(files)
        path == Field(f, "path")
        data == Coalesce(Field(f, "content"), Str(<<>>)).v
        put == [op |-> "put", key |-> path.v, data |-> data,
                contentType |-> contentType(path.v), ok |-> fault # Len(calls) + 1]
    IN  IF ~Destructurable(f)
          THEN [threw |-> TRUE, detail |-> "TypeError: f.path", store |-> st, ops |-> calls]
        ELSE IF ~Truthy(path) THEN applyFiles(Tail(files), st, calls, fault)
        ELSE IF path.t # "string"
          THEN [threw |-> TRUE, detail |-> "TypeError: endsWith", store |-> st, ops |-> calls]
        ELSE IF ~put.ok
          THEN [threw |-> TRUE, detail |-> "put failed", store |-> st, ops |-> calls \o <<put>>]
        ELSE applyFiles(Tail(files), Put(st, path.v, data, contentType(path.v)),
                        calls \o <<put>>, fault)

hApplyDiffAtomic(rq, st, allow, origin, fault) ==
  LET sj == safeJson(rq, fault)
      files == IF Destructurable(sj.v) THEN Field(sj.v, "files") ELSE Undefined
      done == applyFiles(files.a, st, sj.ops, fault)
  IN  IF sj.threw THEN Result(Thrown(sj.detail), st, sj.ops)
      ELSE IF files.t = "array"
        THEN IF done.threw THEN Result(Thrown(done.detail), st, done.ops)
             ELSE Result(json([ok |-> TRUE, applied |-> Len(files.a)], allow, origin, 200),
                         done.store, done.ops)
      ELSE Result(json([ok |-> FALSE, error |-> "Provide files[] or unified diff (TODO)"],
                       allow, origin, 400), st, sj.ops)

hApplyDiffCountsPuts(rq, st, allow, origin, fault) ==
  LET sj == safeJson(rq, fault)
      files == IF Destructurable(sj.v) THEN Field(sj.v, "files") ELSE Undefined
      done == applyFiles(files.a, st, sj.ops, fault)
  IN  IF sj.threw THEN Result(Thrown(sj.detail), st, sj.ops)
      ELSE IF files.t = "array"
        THEN IF done.threw THEN Result(Thrown(done.detail), done.store, done.ops)
             ELSE Result(json([ok |-> TRUE, applied |-> Len(done.ops) - 1], allow, origin, 200),
                         done.store, done.ops)
      ELSE Result(json([ok |-> FALSE, error |-> "Provide files[] or unified diff (TODO)"],
                       allow, origin, 400), st, sj.ops)

hApplyDiff(rq, st, allow, origin, fault) ==
  LET sj == safeJson(rq, fault)
      \* payload?.files
      files == IF Destructurable(sj.v) THEN Field(sj.v, "files") ELSE Undefined
      done == applyFiles(files.a, st, sj.ops, fault)
  IN  IF sj.threw THEN Result(Thrown(sj.detail), st, sj.ops)
      ELSE IF files.t = "array"
        THEN IF done.threw THEN Result(Thrown(done.detail), done.store, done.ops)
             ELSE Result(json([ok |-> TRUE, applied |-> Len(files.a)], allow, origin, 200),
                         done.store, done.ops)
      ELSE Result(json([ok |-> FALSE, error |-> "Provide files[] or unified diff (TODO)"],
                       allow, origin, 400), st, sj.ops)

NewSection == <<"N","e","w"," ","S","e","c","t","i","o","n">>
PageSection == <<"p","a","g","e">>

hGenerateHtml(rq, st, allow, origin, fault) ==
  LET sj == safeJson(rq, fault)
      prompt == Field(sj.v, "prompt")
      section == IF Field(sj.v, "section").t = "undefined" THEN Str(PageSection)
                 ELSE Field(sj.v, "section")
      heading == IF Truthy(prompt) THEN prompt ELSE Str(NewSection)
      html == [section |-> section, h2 |-> escapeHtml(heading.v)]
  IN  IF sj.threw THEN Result(Thrown(sj.detail), st, sj.ops)
      ELSE IF ~Destructurable(sj.v) THEN Result(Thrown("TypeError: destructure"), st, sj.ops)
      \* escapeHtml calls s.replace
      ELSE IF heading.t # "string" THEN Result(Thrown("TypeError: replace"), st, sj.ops)
      ELSE Result(json([ok |-> TRUE, html |-> html, css |-> ".card{...}", js |-> ""],
                       allow, origin, 200), st, sj.ops)

\* up is what the target answers: [status, headers], names in lower case as
\* Headers.forEach yields them
hAnalyzeCors(rq, st, allow, origin, fault, up) ==
  LET sj == safeJson(rq, fault)
      target == Field(sj.v, "url")
      call == [op |-> "fetch", url |-> target, ok |-> fault # 2]
  IN  IF sj.threw THEN Result(Thrown(sj.detail), st, sj.ops)
      ELSE IF ~Destructurable(sj.v) THEN Result(Thrown("TypeError: destructure"), st, sj.ops)
      ELSE IF ~Truthy(target)
        THEN Result(json([ok |-> FALSE, error |-> "url required"], allow, origin, 400), st, sj.ops)
      ELSE IF fault = 2
        THEN Result(json([ok |-> FALSE, error |-> "fetch_failed", detail |-> "fetch failed"],
                         allow, origin, 502), st, sj.ops \o <<call>>)
      ELSE Result(json([ok |-> TRUE, status |-> up.status, headers |-> up.headers,
                        suggestions |-> corsSuggestions(up.headers)], allow, origin, 200),
                  st, sj.ops \o <<call>>)

Multipart == <<"m","u","l","t","i","p","a","r","t","/","f","o","r","m","-","d","a","t","a">>
AssetsDir == <<"a","s","s","e","t","s","/">>
AssetsUrl == <<"/","a","s","s","e","t","s","/">>

hUpload(rq, st, allow, origin, fault, t) ==
  LET ct == HeaderOr(rq.ctype, <<>>)
      parse == [op |-> "req.formData", ok |-> fault # 1 /\ rq.body.kind = "form"]
      file == rq.body.file
      key == AssetsDir \o NumberToString(t) \o <<"_">> \o sanitize(file.name)
      ctype == IF file.type # "" THEN file.type ELSE "application/octet-stream"
      put == [op |-> "put", key |-> key, data |-> file.data, contentType |-> ctype,
              ok |-> fault # 2]
  IN  IF ~StartsWith(ct, Multipart)
        THEN Result(json([ok |-> FALSE, error |-> "multipart/form-data required"],
                         allow, origin, 400), st, <<>>)
      ELSE IF ~parse.ok THEN Result(Thrown("TypeError: formData"), st, <<parse>>)
      ELSE IF file.t # "file"
        THEN Result(json([ok |-> FALSE, error |-> "file required"], allow, origin, 400),
                    st, <<parse>>)
      ELSE IF fault = 2 THEN Result(Thrown("put failed"), st, <<parse, put>>)
      ELSE Result(json([ok |-> TRUE, key |-> key, url |-> AssetsUrl \o LastSegment(key)],
                       allow, origin, 200),
                  Put(st, key, file.data, ctype), <<parse, put>>)

hDeploy(rq, st, allow, origin) ==
  Result(json([ok |-> FALSE, message |-> "Deploy not wired yet"], allow, origin, 501), st, <<>>)

hNotFound(rq, st, allow, origin) ==
  Result(json([ok |-> FALSE, error |-> "Route not found"], allow, origin, 404), st, <<>>)

(***************************************************************************)
(* fetch: the allowlist, the preflight shortcut, the router and the        *)
(* top-level catch.                                                        *)
(***************************************************************************)
\* JSON.parse(env.ALLOW_ORIGINS || "[]"), and whether .includes can be called
\* on the result.  Both run before the try block.
ParseOrigins(c) ==
  CASE c.kind = "absent" -> [threw |-> FALSE, detail |-> "", v |-> <<>>]
    [] c.kind = "array" -> [threw |-> FALSE, detail |-> "", v |-> c.v]
    [] c.kind = "malformed" -> [threw |-> TRUE, detail |-> "SyntaxError", v |-> <<>>]
    [] OTHER -> [threw |-> TRUE, detail |-> "TypeError: includes", v |-> <<>>]

RouteAnyMethod(pathname, method) ==
  IF pathname = "/api/ping" THEN "ping"
  ELSE IF pathname = "/api/list" THEN "list"
  ELSE IF pathname = "/api/read" THEN "read"
  ELSE IF pathname = "/api/write" THEN "write"
  ELSE IF pathname = "/api/apply-diff" THEN "apply-diff"
  ELSE IF pathname = "/api/generate-html" THEN "generate-html"
  ELSE IF pathname = "/api/analyze-cors" THEN "analyze-cors"
  ELSE IF pathname = "/api/upload" THEN "upload"
  ELSE IF pathname = "/api/deploy" THEN "deploy"
  ELSE "none"

\* the chain of if statements of the router: the first test that holds
Route(pathname, method) ==
  IF pathname = "/api/ping" THEN "ping"
  ELSE IF pathname = "/api/list" /\ method = "GET" THEN "list"
  ELSE IF pathname = "/api/read" /\ method = "GET" THEN "read"
  ELSE IF pathname = "/api/write" /\ method = "POST" THEN "write"
  ELSE IF pathname = "/api/apply-diff" /\ method = "POST" THEN "apply-diff"
  ELSE IF pathname = "/api/generate-html" /\ method = "POST" THEN "generate-html"
  ELSE IF pathname = "/api/analyze-cors" /\ method = "POST" THEN "analyze-cors"
  ELSE IF pathname = "/api/upload" /\ method = "POST" THEN "upload"
  ELSE IF pathname = "/api/deploy" /\ method = "POST" THEN "deploy"
  ELSE "none"

\* a handler's outcome, with the handler the router entered
Routed(r, route) ==
  [out |-> r.out, store |-> r.store, ops |-> r.ops,
   ran |-> IF route = "none" THEN <<>> ELSE <<route>>]

\* the body of the try block
Dispatch(rq, st, allow, origin, fault, t, up) ==
  LET route == Route(rq.pathname, rq.method)
  IN  Routed(CASE route = "ping" -> hPing(rq, st, allow, origin, t)
               [] route = "list" -> hList(rq, st, allow, origin, fault)
               [] route = "read" -> hRead(rq, st, allow, origin, fault)
               [] route = "write" -> hWrite(rq, st, allow, origin, fault)
               [] route = "apply-diff" -> hApplyDiff(rq, st, allow, origin, fault)
               [] route = "generate-html" -> hGenerateHtml(rq, st, allow, origin, fault)
               [] route = "analyze-cors" -> hAnalyzeCors(rq, st, allow, origin, fault, up)
               [] route = "upload" -> hUpload(rq, st, allow, origin, fault, t)
               [] route = "deploy" -> hDeploy(rq, st, allow, origin)
               [] OTHER -> hNotFound(rq, st, allow, origin),
             route)

\* catch (err): whatever the try block threw becomes the 500 response
Catch(r, allow, origin) ==
  IF r.out.kind = "throw"
    THEN [r EXCEPT !.out = json([ok |-> FALSE, error |-> "server_error",
                                 detail |-> r.out.detail], allow, origin, 500)]
    ELSE r

\* an exception nothing catches leaves fetch
Escaped(detail, st) ==
  [out |-> [kind |-> "exception", detail |-> detail], store |-> st, ops |-> <<>>,
   ran |-> <<>>]

fetchRoutingPreflight(rq, c, st, fault, t, up) ==
  LET parsed == ParseOrigins(c)
      origin == HeaderOr(rq.origin, "")
      allow == origin \in Range(parsed.v)
  IN  IF parsed.threw THEN Escaped(parsed.detail, st)
      ELSE Catch(Dispatch(rq, st, allow, origin, fault, t, up), allow, origin)

\* export default { async fetch(req, env, ctx) }: what one call produces
fetch(rq, c, st, fault, t, up) ==
  LET parsed == ParseOrigins(c)
      origin == HeaderOr(rq.origin, "")
      allow == origin \in Range(parsed.v)
  IN  IF parsed.threw THEN Escaped(parsed.detail, st)
      ELSE IF rq.method = "OPTIONS"
        THEN [out |-> Response([t |-> "null"], 204, corsHeaders(allow, origin)),
              store |-> st, ops |-> <<>>, ran |-> <<>>]
      ELSE Catch(Dispatch(rq, st, allow, origin, fault, t, up), allow, origin)

(***************************************************************************)
(* The environment: deployments, clients' requests, collaborator answers.  *)
(***************************************************************************)
OriginB == "https://preview.pages.dev"
OriginE == "https://evil.example"

\* ALLOW_ORIGINS as the head of worker.js documents it: a JSON array; or unset
Documented == [kind |-> "array", v |-> <<"https://mb.meyoustudios.com", OriginB>>]
ArrayConfigs == { [kind |-> "absent"], Documented }
\* any other text: not JSON at all, or JSON that is no array (an object, null)
OtherConfigs == { [kind |-> "malformed"], [kind |-> "nonarray"] }

Origins == {Null, Header(OriginB), Header(OriginE)}

XHtml == <<"x", ".", "h", "t", "m", "l">>
APng == <<"a", ".", "P", "N", "G">>
Asset9a == AssetsDir \o <<"9", "_", "a">>
Hi == <<"<", "p", ">", "h", "i">>
V2 == <<"v", "2">>

ClassifierPaths ==
  { <<"a",".","h","t","m","l">>, <<"a",".","H","T","M","L">>, <<"a",".","c","s","s">>,
    <<"a",".","C","s","s">>, <<"a",".","j","s">>, <<"a",".","P","N","G">>,
    <<"a",".","j","p","e","g">>, <<"a",".","s","v","g">>, <<"a",".","t","x","t">>,
    <<"h","t","m","l">>, <<"a",".","j","s","o","n">>, <<"a",".","j","s",".","g","i","f">>,
    <<".","j","s">>, <<"a",".","p","n","g","x">> }

FileNames ==
  { <<"m","y"," ","p","h","o","t","o",".","p","n","g">>, <<"a","/","b",".","c">>,
    <<>>, <<"A","-","1","_","z",".","t","x","t">> }

\* What the clients of one run send.  rich: also the bodies no client of the
\* documented API sends (null, numbers where strings belong).  entries: more
\* elements for the files array of /api/apply-diff.
Universe(paths, names, origins, contents, rich) ==
  [paths |-> paths, names |-> names, origins |-> origins, contents |-> contents,
   rich |-> rich, entries |-> {}]

\* entries of a files array whose path is no usable key
OddEntries ==
  { Obj([path |-> Num(5), content |-> Str(Hi)]),
    Obj([path |-> Str(<<>>), content |-> Str(Hi)]) }

\* every origin against one key
AnyOrigin == Universe({XHtml}, {}, Origins, {Hi}, FALSE)

\* one allowed origin against two keys, or a key that is also an upload's,
\* or one of the classifier's paths, or one of the file names
OneOrigin ==
  { Universe({XHtml, APng}, {}, {Header(OriginB)}, {Hi, V2}, TRUE),
    Universe({Asset9a}, {<<"a">>}, {Header(OriginB)}, {Hi}, FALSE),
    [Universe({XHtml}, {}, {Header(OriginB)}, {Hi}, FALSE) EXCEPT !.entries = OddEntries] }
    \cup { Universe({p}, {}, {Header(OriginB)}, {Hi}, FALSE) : p \in ClassifierPaths }
    \cup { Universe({}, {n}, {Header(OriginB)}, {Hi}, FALSE) : n \in FileNames }

\* the runs of the model: a deployment and what its clients send
Runs(configs) ==
  { <<c, AnyOrigin>> : c \in configs } \cup { <<Documented, u>> : u \in OneOrigin }

\* the keys /api/upload can produce in this run
UploadKeys(u) ==
  { AssetsDir \o NumberToString(t) \o <<"_">> \o sanitize(n) : t \in Clock, n \in u.names }

\* the bucket when the run starts: empty, or holding an object put by others
SeedStores(u) ==
  { <<>> } \cup
  { Put(<<>>, p, <<"o", "l", "d">>, "application/octet-stream") : p \in u.paths }

Request(method, pathname, origin, query, ctype, body) ==
  [method |-> method, pathname |-> pathname, origin |-> origin, query |-> query,
   ctype |-> ctype, body |-> body]

NoBody == [kind |-> "empty"]
JsonBody(v) == [kind |-> "json", v |-> v]
JsonCt == Header(<<"a","p","p","l","i","c","a","t","i","o","n","/","j","s","o","n">>)

Pathnames ==
  { "/api/ping", "/api/list", "/api/read", "/api/write", "/api/apply-diff",
    "/api/generate-html", "/api/analyze-cors", "/api/upload", "/api/deploy",
    "/api/ping/", "/" }
Methods == {"GET", "POST", "PUT"}

WriteBodies(u) ==
  { NoBody, JsonBody(Obj([content |-> Str(Hi)])) }
    \cup { JsonBody(Obj([path |-> Str(k), content |-> Str(c)])) :
             k \in u.paths \cup {<<>>}, c \in u.contents }
    \cup { JsonBody(Obj([path |-> Str(k)])) : k \in u.paths }
    \cup IF u.rich
           THEN { [kind |-> "malformed"], JsonBody(Null), JsonBody(Num(5)),
                  JsonBody(Obj([path |-> Num(5), content |-> Str(Hi)])),
                  JsonBody(Obj([path |-> Null])) }
                \cup { JsonBody(Obj([path |-> Str(k), content |-> Null])) : k \in u.paths }
           ELSE {}

FileEntries(u) ==
  { Obj([content |-> Str(Hi)]) } \cup u.entries
    \cup IF u.rich
           THEN { Null,
                  Obj([path |-> Str(XHtml), content |-> Str(Hi)]),
                  Obj([path |-> Str(XHtml), content |-> Str(V2)]),
                  Obj([path |-> Str(APng)]) }
           ELSE { Obj([path |-> Str(k), content |-> Str(Hi)]) : k \in u.paths }

RECURSIVE SeqsUpTo(_, _)
SeqsUpTo(S, n) ==
  IF n = 0 THEN { <<>> }
  ELSE LET shorter == SeqsUpTo(S, n - 1)
       IN  shorter \cup { Append(q, e) : q \in {x \in shorter : Len(x) = n - 1}, e \in S }

ApplyDiffBodies(u) ==
  { NoBody, JsonBody(Obj([files |-> Str(Hi)])) }
    \cup { JsonBody(Obj([files |-> Arr(a)])) : a \in SeqsUpTo(FileEntries(u), MaxFiles) }
    \cup IF u.rich
           THEN { [kind |-> "malformed"], JsonBody(Null), JsonBody(Obj([diff |-> Str(V2)])) }
           ELSE {}

GenerateBodies ==
  { NoBody, [kind |-> "malformed"], JsonBody(Null),
    JsonBody(Obj([prompt |-> Num(5)])),
    JsonBody(Obj([prompt |-> Str(<<"<","s",">","&","'">>)])),
    JsonBody(Obj([prompt |-> Str(<<>>), section |-> Str(<<"h","e","r","o">>)])) }

TargetUrl == <<"h","t","t","p",":","/","/","t">>

AnalyzeBodies ==
  { NoBody, [kind |-> "malformed"], JsonBody(Null), JsonBody(Obj([url |-> Str(<<>>)])),
    JsonBody(Obj([url |-> Str(TargetUrl)])) }

Upstreams ==
  { [status |-> 200, headers |-> <<>>],
    [status |-> 200, headers |-> [n \in {"access-control-allow-origin"} |-> "*"]],
    [status |-> 404,
     headers |-> [n \in {"access-control-allow-origin", "access-control-allow-methods",
                         "access-control-allow-headers"} |-> "x"]] }
NoUpstream == [status |-> 0, headers |-> <<>>]

MultipartCt == Header(Multipart \o <<";"," ","b","=","x">>)
FormBody(file) == [kind |-> "form", file |-> file]
File(name, type) == [t |-> "file", name |-> name, type |-> type, data |-> <<"P", "N", "G">>]

\* the Content-Type header and the body of the requests to /api/upload
Uploads(u) ==
  { <<ct, FormBody(File(<<"f">>, ""))>> : ct \in {Null, JsonCt, Header(SubSeq(Multipart, 1, 9))} }
    \cup { <<Header(Multipart), NoBody>>, <<MultipartCt, FormBody(Null)>>,
            <<MultipartCt, FormBody(Str(Hi))>> }
    \cup { <<MultipartCt, FormBody(File(n, ty))>> : n \in u.names, ty \in {"", "image/png"} }

\* a body a client may send along with a request nobody parses
SomeBody == JsonBody(Obj([path |-> Str(XHtml), content |-> Str(Hi)]))

PathQueries(u) ==
  { <<>>, [path |-> <<>>] } \cup { [path |-> k] : k \in u.paths \cup UploadKeys(u) }

PrefixQueries == { <<>>, [prefix |-> <<>>], [prefix |-> <<"a">>] }

(***************************************************************************)
(* History kept for the round-trip property: for each key, the data of the *)
(* most recent put and the route that made it.  For /api/write it is taken *)
(* from the request and its acknowledgement, for the other routes from the *)
(* calls that succeeded.                                                   *)
(***************************************************************************)
RECURSIVE AckCalls(_, _, _)
AckCalls(a, calls, route) ==
  IF calls = <<>> THEN a
  ELSE LET c == Head(calls)
       IN  IF c.op = "put" /\ c.ok
             THEN AckCalls([k \in DOMAIN a \cup {c.key} |->
                              IF k = c.key THEN [data |-> c.data, via |-> route] ELSE a[k]],
                           Tail(calls), route)
           ELSE AckCalls(a, Tail(calls), route)

Ack(a, rq, r) ==
  LET route == Route(rq.pathname, rq.method)
      p == rq.body.v.f.path.v
      c == Coalesce(Field(rq.body.v, "content"), Str(<<>>)).v
  IN  IF rq.method = "OPTIONS" \/ r.out.kind # "response" THEN a
      ELSE IF route = "write"
        THEN IF r.out.status = 200
               THEN [k \in DOMAIN a \cup {p} |->
                       IF k = p THEN [data |-> c, via |-> "write"] ELSE a[k]]
             ELSE a
      ELSE AckCalls(a, r.ops, route)

(***************************************************************************)
(* The state machine.  A request arrives when the worker is idle, fetch    *)
(* runs to its end, and the outcome is delivered.                          *)
(***************************************************************************)
NoRequest == [method |-> "none"]
NoResponse == [kind |-> "none"]

InitWith(configs) ==
  /\ \E run \in Runs(configs) : cfg = run[1] /\ uni = run[2]
  /\ store \in SeedStores(uni)
  /\ acked = <<>>
  /\ pc = "idle"
  /\ req = NoRequest
  /\ resp = NoResponse
  /\ ops = <<>>
  /\ ran = <<>>
  /\ pre = store

Init == InitWith(ArrayConfigs)

InitEnv == InitWith(ArrayConfigs \cup OtherConfigs)

\* the state after one call of fetch that produced r
Commit(rq, r) ==
  /\ resp' = r.out
  /\ store' = r.store
  /\ ops' = r.ops
  /\ ran' = r.ran
  /\ acked' = Ack(acked, rq, r)
  /\ req' = rq
  /\ pre' = store
  /\ pc' = "done"
  /\ UNCHANGED <<cfg, uni>>

\* one call of fetch, from the request to the returned Response; t is what
\* Date.now() returns during it, up what the target of analyze-cors answers
Handle(rq, fault, t, up) ==
  /\ pc = "idle"
  /\ Commit(rq, fetch(rq, cfg, store, fault, t, up))

Preflight ==
  \E pn \in Pathnames, o \in uni.origins :
    Handle(Request("OPTIONS", pn, o, <<>>, JsonCt, SomeBody), 0, FirstNow, NoUpstream)

Ping ==
  \E m \in Methods, o \in uni.origins, t \in Clock :
    /\ Route("/api/ping", m) = "ping"
    /\ Handle(Request(m, "/api/ping", o, <<>>, Null, NoBody), 0, t, NoUpstream)

List ==
  \E m \in Methods, o \in uni.origins, q \in PrefixQueries, fault \in 0..1 :
    /\ Route("/api/list", m) = "list"
    /\ Handle(Request(m, "/api/list", o, q, Null, NoBody), fault, FirstNow, NoUpstream)

Read ==
  \E m \in Methods, o \in uni.origins, q \in PathQueries(uni), fault \in 0..2 :
    /\ Route("/api/read", m) = "read"
    /\ Handle(Request(m, "/api/read", o, q, Null, NoBody), fault, FirstNow, NoUpstream)

Write ==
  \E m \in Methods, o \in uni.origins, b \in WriteBodies(uni), fault \in 0..2 :
    /\ Route("/api/write", m) = "write"
    /\ Handle(Request(m, "/api/write", o, <<>>, JsonCt, b), fault, FirstNow, NoUpstream)

ApplyDiff ==
  \E m \in Methods, o \in uni.origins, b \in ApplyDiffBodies(uni),
     fault \in 0..(MaxFiles + 1) :
    /\ Route("/api/apply-diff", m) = "apply-diff"
    /\ Handle(Request(m, "/api/apply-diff", o, <<>>, JsonCt, b), fault, FirstNow, NoUpstream)

GenerateHtml ==
  \E m \in Methods, o \in uni.origins, b \in GenerateBodies, fault \in 0..1 :
    /\ Route("/api/generate-html", m) = "generate-html"
    /\ Handle(Request(m, "/api/generate-html", o, <<>>, JsonCt, b), fault, FirstNow,
              NoUpstream)

AnalyzeCors ==
  \E m \in Methods, o \in uni.origins, b \in AnalyzeBodies, fault \in 0..2,
     up \in Upstreams :
    /\ Route("/api/analyze-cors", m) = "analyze-cors"
    /\ Handle(Request(m, "/api/analyze-cors", o, <<>>, JsonCt, b), fault, FirstNow, up)

Upload ==
  \E m \in Methods, o \in uni.origins, up \in Uploads(uni), fault \in 0..2, t \in Clock :
    /\ Route("/api/upload", m) = "upload"
    /\ Handle(Request(m, "/api/upload", o, <<>>, up[1], up[2]), fault, t, NoUpstream)

Deploy ==
  \E m \in Methods, o \in uni.origins :
    /\ Route("/api/deploy", m) = "deploy"
    /\ Handle(Request(m, "/api/deploy", o, <<>>, Null, NoBody), 0, FirstNow, NoUpstream)

\* no test of the router holds
RouteNotFound ==
  \E m \in Methods, pn \in Pathnames, o \in uni.origins :
    /\ Route(pn, m) = "none"
    /\ Handle(Request(m, pn, o, <<>>, JsonCt, SomeBody), 0, FirstNow, NoUpstream)

\* the outcome leaves the worker; the request and its Response are gone
Deliver ==
  /\ pc = "done"
  /\ pc' = "idle"
  /\ req' = NoRequest
  /\ resp' = NoResponse
  /\ ops' = <<>>
  /\ ran' = <<>>
  /\ pre' = store
  /\ UNCHANGED <<cfg, uni, store, acked>>

Next ==
  \/ Preflight
  \/ Ping
  \/ List
  \/ Read
  \/ Write
  \/ ApplyDiff
  \/ GenerateHtml
  \/ AnalyzeCors
  \/ Upload
  \/ Deploy
  \/ RouteNotFound
  \/ Deliver

\* deployments configured as documented
Spec == Init /\ [][Next]_vars

\* deployments with any ALLOW_ORIGINS text
SpecEnv == InitEnv /\ [][Next]_vars

(***************************************************************************)
(* Properties.                                                             *)
(***************************************************************************)
CorsNames == {"Access-Control-Allow-Methods", "Access-Control-Allow-Headers",
              "Access-Control-Max-Age"}

\* the allowlist of the deployment: the entries of the configured array
Allowlist == IF cfg.kind = "array" THEN Range(cfg.v) ELSE {}

\* fetch has returned a Response for the request
Answered == pc = "done" /\ resp.kind = "response"

\* no collaborator call of the request threw
NoFault == \A i \in DOMAIN ops : ops[i].ok

HasOrigin == req.origin.t = "header"

\* C1: every Response carries Access-Control-Allow-Origin equal to the
\* request's Origin when that Origin is in the allowlist and no such header
\* otherwise (no wildcard, no other value), and always carries the three
\* fixed CORS headers, whatever the method, the route and the outcome.
C1_CorsOnEveryResponse ==
  Answered =>
    /\ (HasOrigin /\ req.origin.text \in Allowlist) =>
          /\ "Access-Control-Allow-Origin" \in DOMAIN resp.headers
          /\ resp.headers["Access-Control-Allow-Origin"] = req.origin.text
    /\ ~(HasOrigin /\ req.origin.text \in Allowlist) =>
          "Access-Control-Allow-Origin" \notin DOMAIN resp.headers
    /\ CorsNames \subseteq DOMAIN resp.headers
    /\ resp.headers["Access-Control-Allow-Methods"] = "GET,POST,OPTIONS"
    /\ resp.headers["Access-Control-Allow-Headers"] = "content-type, authorization"
    /\ resp.headers["Access-Control-Max-Age"] = "86400"

\* an error answer to an allowed origin on a route that does not exist
C1_Witness ==
  /\ Answered
  /\ req.method = "PUT"
  /\ ran = <<>>
  /\ resp.status = 404
  /\ "Access-Control-Allow-Origin" \in DOMAIN resp.headers

\* C2: every call of fetch ends in a Response, never in an escaped exception:
\* when something throws (also a malformed ALLOW_ORIGINS, which counts as an
\* empty allowlist) the result is the 500 server_error response with its
\* detail and the CORS headers.
C2_NothingEscapes ==
  pc = "done" =>
    /\ resp.kind = "response"
    /\ (\E i \in DOMAIN ops : ~ops[i].ok /\ ops[i].op # "fetch") =>
          /\ resp.status = 500
          /\ resp.body.t = "json"
          /\ resp.body.v.ok = FALSE
          /\ resp.body.v.error = "server_error"
          /\ "detail" \in DOMAIN resp.body.v
          /\ CorsNames \subseteq DOMAIN resp.headers
    /\ cfg.kind \notin {"absent", "array"} =>
          "Access-Control-Allow-Origin" \notin DOMAIN resp.headers

\* C3: an OPTIONS request, whatever its path, is answered 204 with no body
\* and the CORS headers alone, no handler is entered, no collaborator is
\* called (storage, outbound fetch, body parsing) and the store is unchanged.
C3_PreflightShortcut ==
  (pc = "done" /\ req.method = "OPTIONS") =>
    /\ resp.kind = "response"
    /\ resp.status = 204
    /\ resp.body.t = "null"
    /\ DOMAIN resp.headers =
         CorsNames \cup (IF HasOrigin /\ req.origin.text \in Allowlist
                           THEN {"Access-Control-Allow-Origin"} ELSE {})
    /\ ran = <<>>
    /\ ops = <<>>
    /\ store = pre

\* a preflight for a route that would parse the body and put it
C3_Witness ==
  /\ Answered
  /\ req.method = "OPTIONS"
  /\ req.pathname = "/api/write"
  /\ req.body = SomeBody
  /\ resp.status = 204

\* the request was routed to handler h
Ran(h) == pc = "done" /\ ran = <<h>>

\* the JSON value of the request body, as JSON.parse yields it
Payload == IF req.body.kind = "json" THEN req.body.v ELSE Obj(<<>>)

\* the body is JSON text (or empty), and reading it did not fail
BodyParsed == req.body.kind \in {"empty", "json"} /\ ops # <<>> /\ ops[1].ok

IsError(status, message) ==
  /\ resp.kind = "response"
  /\ resp.status = status
  /\ resp.body.t = "json"
  /\ resp.body.v = [ok |-> FALSE, error |-> message]

\* the storage and network calls among the collaborator calls
Touched == {i \in DOMAIN ops : ops[i].op \in {"list", "get", "obj.text", "put", "fetch"}}

\* C4: GET /api/read of a key returns 200 with the data of the most recent
\* put to that key (for /api/write: the content of the last acknowledged
\* write to it, later puts to other keys notwithstanding) and with the
\* classifier's type of the path, provided the storage calls of the read do
\* not fail.
C4_WriteReadRoundTrip ==
  (Ran("read") /\ NoFault /\ "path" \in DOMAIN req.query
     /\ req.query.path \in DOMAIN acked) =>
    /\ resp.kind = "response"
    /\ resp.status = 200
    /\ resp.body = [t |-> "text", text |-> acked[req.query.path].data]
    /\ resp.headers["Content-Type"] = contentType(req.query.path)

\* a read of x.html after a write replaced its content and another key was put
C4_Witness ==
  /\ Ran("read")
  /\ resp.status = 200
  /\ req.query.path = XHtml
  /\ XHtml \in DOMAIN acked /\ acked[XHtml] = [data |-> V2, via |-> "write"]
  /\ APng \in DOMAIN acked
  /\ resp.body.text = V2

\* the entries of a files array that are {path, content} objects
IsFileEntry(f) == f.t = "object" /\ Field(f, "path").t \in {"undefined", "string"}
HasPath(f) == f.t = "object" /\ Field(f, "path").t = "string" /\ Field(f, "path").v # <<>>

\* the puts a files array asks for: key and data, in array order
RECURSIVE WantedPuts(_)
WantedPuts(files) ==
  IF files = <<>> THEN <<>>
  ELSE LET f == Head(files)
           c == Field(f, "content")
       IN  (IF HasPath(f)
              THEN << [key |-> Field(f, "path").v,
                       data |-> IF c.t = "string" THEN c.v ELSE <<>>] >>
              ELSE <<>>) \o WantedPuts(Tail(files))

\* key and data of the put calls of the request, in order; those that succeeded
PutCalls == [i \in DOMAIN SelectSeq(ops, LAMBDA c : c.op = "put") |->
               LET c == SelectSeq(ops, LAMBDA x : x.op = "put")[i]
               IN  [key |-> c.key, data |-> c.data]]
OkPutCalls == [i \in DOMAIN SelectSeq(ops, LAMBDA c : c.op = "put" /\ c.ok) |->
                 LET c == SelectSeq(ops, LAMBDA x : x.op = "put" /\ x.ok)[i]
                 IN  [key |-> c.key, data |-> c.data]]

\* the store st after the puts, as far as keys and data go
RECURSIVE DataAfter(_, _)
DataAfter(d, puts) ==
  IF puts = <<>> THEN d
  ELSE DataAfter([k \in DOMAIN d \cup {Head(puts).key} |->
                    IF k = Head(puts).key THEN Head(puts).data ELSE d[k]], Tail(puts))

DataOf(st) == [k \in DOMAIN st |-> st[k].data]

FilesGiven == Payload.t = "object" /\ Field(Payload, "files").t = "array"
Files == Field(Payload, "files").a

\* C5: apply-diff with a files array of {path, content} entries, when no call
\* fails: the puts are exactly the entries with a non-empty path, in array
\* order, content defaulting to the empty string; the answer is {ok:true,
\* applied:n} with n the length of the array, skipped entries included.
C5_ApplyDiffCount ==
  (Ran("apply-diff") /\ BodyParsed /\ FilesGiven /\ NoFault
     /\ \A i \in DOMAIN Files : IsFileEntry(Files[i])) =>
    /\ resp.kind = "response"
    /\ resp.status = 200
    /\ resp.body = [t |-> "json", v |-> [ok |-> TRUE, applied |-> Len(Files)]]
    /\ PutCalls = WantedPuts(Files)
    /\ DataOf(store) = DataAfter(DataOf(pre), WantedPuts(Files))

\* a batch of two entries, one written and one skipped, counted as 2
C5_Witness ==
  /\ Ran("apply-diff")
  /\ FilesGiven
  /\ Len(Files) = 2 /\ HasPath(Files[1]) /\ IsFileEntry(Files[2]) /\ ~HasPath(Files[2])
  /\ resp.status = 200
  /\ resp.body.v.applied = 2
  /\ Len(PutCalls) = 1

\* the first entry of the files array whose processing or put failed, or 0:
\* an entry that is no {path, content} object cannot be processed, and a put
\* fails when the store says so
PutOps == SelectSeq(ops, LAMBDA c : c.op = "put")
FailedPut == \E i \in DOMAIN PutOps : ~PutOps[i].ok
FailedAt ==
  LET failing == {i \in DOMAIN PutOps : ~PutOps[i].ok}
      n == CHOOSE i \in failing : \A j \in failing : i <= j
      bad == {k \in DOMAIN Files : ~IsFileEntry(Files[k])}
      put == {k \in DOMAIN Files :
                HasPath(Files[k]) /\ Len(WantedPuts(SubSeq(Files, 1, k))) = n}
  IN  IF failing # {} THEN (IF put = {} THEN 0 ELSE CHOOSE k \in put : TRUE)
      ELSE IF bad # {} THEN CHOOSE k \in bad : \A j \in bad : k <= j
      ELSE 0

\* C6: when the put or the processing of the k-th entry of the files array
\* fails, the puts of the earlier entries stay in the store, no later entry is
\* put, and the answer is the 500 server_error response, without a count.
C6_ApplyDiffNotAtomic ==
  (Ran("apply-diff") /\ BodyParsed /\ FilesGiven /\ FailedAt # 0) =>
    /\ resp.kind = "response"
    /\ resp.status = 500
    /\ resp.body.v.ok = FALSE
    /\ resp.body.v.error = "server_error"
    /\ "applied" \notin DOMAIN resp.body.v
    /\ OkPutCalls = WantedPuts(SubSeq(Files, 1, FailedAt - 1))
    /\ Len(PutCalls) <= Len(OkPutCalls) + 1
    /\ DataOf(store) = DataAfter(DataOf(pre), WantedPuts(SubSeq(Files, 1, FailedAt - 1)))

\* the put of the second entry failed after the first entry was written
C6_Witness ==
  /\ Ran("apply-diff")
  /\ FilesGiven
  /\ FailedAt = 2
  /\ FailedPut
  /\ resp.status = 500
  /\ store # pre

\* C7: a request that input validation rejects gets its static error answer,
\* no storage or network call is made for it and the store is unchanged: read
\* without path, write without path, apply-diff without a files array,
\* analyze-cors without url, upload without multipart/form-data or without a
\* file-valued field "file".  A read of an absent key is answered 404.
\* The body is one that safeJson delivers and the handler can take apart (no
\* body at all, or a JSON value without the field); a body that makes the
\* handler throw (text that is no JSON, JSON null for write and analyze-cors,
\* a failing read of the body) is answered by the catch-all of C2.
C7_ValidationBeforeCollaborators ==
  /\ (Ran("read") /\ ~("path" \in DOMAIN req.query /\ req.query.path # <<>>)) =>
        IsError(400, "path required") /\ ops = <<>> /\ store = pre
  /\ (Ran("write") /\ BodyParsed /\ Payload.t # "null"
         /\ ~Truthy(Field(Payload, "path"))) =>
        IsError(400, "path required") /\ Touched = {} /\ store = pre
  /\ (Ran("apply-diff") /\ BodyParsed /\ ~FilesGiven) =>
        /\ IsError(400, "Provide files[] or unified diff (TODO)")
        /\ Touched = {} /\ store = pre
  /\ (Ran("analyze-cors") /\ BodyParsed /\ Payload.t # "null"
         /\ ~Truthy(Field(Payload, "url"))) =>
        IsError(400, "url required") /\ Touched = {} /\ store = pre
  /\ (Ran("upload") /\ ~(req.ctype.t = "header" /\ StartsWith(req.ctype.text, Multipart))) =>
        IsError(400, "multipart/form-data required") /\ ops = <<>> /\ store = pre
  /\ (Ran("upload") /\ req.ctype.t = "header" /\ StartsWith(req.ctype.text, Multipart)
         /\ req.body.kind = "form" /\ NoFault /\ req.body.file.t # "file") =>
        IsError(400, "file required") /\ Touched = {} /\ store = pre
  /\ (Ran("read") /\ NoFault /\ "path" \in DOMAIN req.query /\ req.query.path # <<>>
         /\ req.query.path \notin DOMAIN pre) =>
        IsError(404, "not found") /\ store = pre

\* a write whose body has content but an empty path, to a store that holds data
C7_Witness ==
  /\ Ran("write")
  /\ BodyParsed
  /\ Payload.t = "object" /\ Field(Payload, "path") = Str(<<>>)
  /\ Field(Payload, "content") = Str(Hi)
  /\ resp.status = 400
  /\ DOMAIN pre # {}

\* C8: a successful upload of a file named f puts exactly one object, under
\* assets/<Date.now()>_<f with every character outside [A-Za-z0-9._-]
\* replaced by _>, and answers {ok:true, key, url} with url = /assets/ and the
\* last segment of key, that is /assets/<digits>_<sanitized name>, a single
\* segment after /assets/.
C8_UploadKeyAndUrl ==
  (Ran("upload") /\ resp.kind = "response" /\ resp.status = 200) =>
    LET f == req.body.file
        key == resp.body.v.key
        url == resp.body.v.url
        clean == [i \in DOMAIN f.name |->
                    IF f.name[i] \in SafeChars THEN f.name[i] ELSE "_"]
    IN  /\ DOMAIN resp.body.v = {"ok", "key", "url"}
        /\ resp.body.v.ok = TRUE
        /\ \E t \in Clock : key = AssetsDir \o NumberToString(t) \o <<"_">> \o clean
        /\ Len(PutOps) = 1 /\ PutOps[1].key = key /\ PutOps[1].data = f.data
        /\ DOMAIN store = DOMAIN pre \cup {key}
        /\ store[key].data = f.data
        /\ \A k \in DOMAIN pre \ {key} : store[k] = pre[k]
        /\ url = AssetsUrl \o SubSeq(key, Len(AssetsDir) + 1, Len(key))
        /\ \A i \in (Len(AssetsUrl) + 1)..Len(url) : url[i] # "/"

\* "my photo.png" uploaded at time 10
C8_Witness ==
  /\ Ran("upload")
  /\ resp.status = 200
  /\ req.body.file.name = <<"m","y"," ","p","h","o","t","o",".","p","n","g">>
  /\ resp.body.v.key = AssetsDir \o <<"1","0","_","m","y","_","p","h","o","t","o",".","p","n","g">>
  /\ resp.body.v.url = AssetsUrl \o <<"1","0","_","m","y","_","p","h","o","t","o",".","p","n","g">>

\* the routes: pathname, methods, handler
RouteTable ==
  { <<"/api/ping", {"GET", "POST", "PUT"}, "ping">>,
    <<"/api/list", {"GET"}, "list">>,
    <<"/api/read", {"GET"}, "read">>,
    <<"/api/write", {"POST"}, "write">>,
    <<"/api/apply-diff", {"POST"}, "apply-diff">>,
    <<"/api/generate-html", {"POST"}, "generate-html">>,
    <<"/api/analyze-cors", {"POST"}, "analyze-cors">>,
    <<"/api/upload", {"POST"}, "upload">>,
    <<"/api/deploy", {"POST"}, "deploy">> }

\* C9: a request that is no preflight enters at most one handler, the one
\* the table gives for its exact pathname and method: ping for any method,
\* list and read for GET, the other six for POST.  Ping answers {ok:true,
\* time}; any other pathname or method is answered 404 "Route not found"
\* with no collaborator call; deploy is answered 501 with a message and no
\* error field.
C9_DispatchByPathAndMethod ==
  (Answered /\ req.method # "OPTIONS") =>
    /\ Len(ran) <= 1
    /\ \A h \in {e[3] : e \in RouteTable} :
          ran = <<h>> <=>
            \E e \in RouteTable : e[1] = req.pathname /\ req.method \in e[2] /\ e[3] = h
    /\ ran = <<"ping">> =>
          /\ resp.status = 200
          /\ DOMAIN resp.body.v = {"ok", "time"}
          /\ resp.body.v.ok = TRUE
          /\ resp.body.v.time \in Clock
    /\ ran = <<>> =>
          IsError(404, "Route not found") /\ ops = <<>> /\ store = pre
    /\ ran = <<"deploy">> =>
          /\ resp.status = 501
          /\ "message" \in DOMAIN resp.body.v
          /\ "error" \notin DOMAIN resp.body.v
          /\ ops = <<>>

\* a known path with a method its route does not take
C9_Witness ==
  /\ Answered
  /\ req.method = "PUT"
  /\ req.pathname = "/api/write"
  /\ ran = <<>>
  /\ resp.status = 404
  /\ DOMAIN pre # {}

TextHtml == "text/html; charset=utf-8"
TextCss == "text/css; charset=utf-8"
TextJs == "text/javascript; charset=utf-8"
TextPlain == "text/plain; charset=utf-8"

\* the content type of each path the clients write and read
TypeTable ==
  { <<<<"a",".","h","t","m","l">>, TextHtml>>, <<<<"a",".","H","T","M","L">>, TextPlain>>,
    <<<<"a",".","c","s","s">>, TextCss>>, <<<<"a",".","C","s","s">>, TextPlain>>,
    <<<<"a",".","j","s">>, TextJs>>, <<<<"a",".","P","N","G">>, "image/*">>,
    <<<<"a",".","j","p","e","g">>, "image/*">>, <<<<"a",".","s","v","g">>, "image/*">>,
    <<<<"a",".","t","x","t">>, TextPlain>>, <<<<"h","t","m","l">>, TextPlain>>,
    <<<<"a",".","j","s","o","n">>, TextPlain>>,
    <<<<"a",".","j","s",".","g","i","f">>, "image/*">>, <<<<".","j","s">>, TextJs>>,
    <<<<"a",".","p","n","g","x">>, TextPlain>>, <<XHtml, TextHtml>>,
    <<Asset9a, TextPlain>> }

TypeOf(path) == (CHOOSE e \in TypeTable : e[1] = path)[2]

\* C10: the content type is decided by the path alone: .html, .css and .js
\* (in that case only) give text/html, text/css and text/javascript, the six
\* image extensions in any case give image/*, anything else text/plain.  Write
\* and apply-diff store that type with the blob and read serves the same
\* type for the same path.
C10_ContentTypeByPath ==
  /\ (Ran("write") \/ Ran("apply-diff")) =>
        \A i \in DOMAIN PutOps :
          /\ PutOps[i].key \in {e[1] : e \in TypeTable}
          /\ PutOps[i].contentType = TypeOf(PutOps[i].key)
          /\ PutOps[i].ok => store[PutOps[i].key].contentType = TypeOf(PutOps[i].key)
  /\ (Ran("read") /\ resp.kind = "response" /\ resp.status = 200) =>
        /\ req.query.path \in {e[1] : e \in TypeTable} =>
              resp.headers["Content-Type"] = TypeOf(req.query.path)
        /\ (req.query.path \in DOMAIN acked
               /\ acked[req.query.path].via \in {"write", "apply-diff"}) =>
              resp.headers["Content-Type"] = pre[req.query.path].contentType

\* a.HTML, written as text/plain, is read back as text/plain
C10_Witness ==
  /\ Ran("read")
  /\ resp.status = 200
  /\ req.query.path = <<"a",".","H","T","M","L">>
  /\ resp.headers["Content-Type"] = TextPlain
  /\ req.query.path \in DOMAIN acked
  /\ acked[req.query.path].via = "write"
  /\ pre[req.query.path].contentType = TextPlain

====
